---- MODULE Spec2Model ----
(***************************************************************************)
(* SquirrelScheduler: the sync engine of SScheduler (src/README.md, the    *)
(* class starting at line 459) running against the SQLite Drizzle adapter  *)
(* (src/packages/drizzle-adapter/src/lib/sqlite.ts).                       *)
(*                                                                         *)
(* Time is a discrete clock `now`.  One action is one storage statement    *)
(* together with the synchronous JavaScript that runs when its promise     *)
(* settles, up to the point where the next storage call is issued.         *)
(***************************************************************************)
EXTENDS Integers, Sequences, FiniteSets, TLC

\* ---------------------------------------------------------------- bounds
NumTasks == 2
MaxTime == 2
MaxMaxRetries == 1
MaxFaults == 1
MaxAdds == 3
MaxCandidates == 2
MaxDelay == 3
MaxAttempts == 3
MaxSched == MaxTime - 1
MaxBatch == NumTasks

\* config defaults, in clock ticks of 1000 ms
BaseRetryDelay == 1
MaxRetryDelay == 3600

\* add(): `maxRetries: 3`
DraftMaxRetries == 3

Tasks == 1..NumTasks

\* Date values: a row's nullable timestamp column holding NULL, and the
\* Invalid Date that `new Date(undefined)` produces.
NoDate == -1
InvalidDate == -2

\* sync() callers.  a1 and a2 call sync() on the same SScheduler instance,
\* b1 calls it on another instance (another process on the same backend).
Procs == {"a1", "a2", "b1"}
Instances == {"A", "B"}
inst(p) == IF p = "b1" THEN "B" ELSE "A"
ProcsOf(i) == {p \in Procs : inst(p) = i}

VARIABLES
    now,            \* Date.now()
    tasks,          \* squirrel_task rows
    attempts,       \* squirrel_task_result rows, in insertion order
    syncHistory,    \* squirrel_sync_history rows
    batchSize,      \* config.batchSize
    retryConfig,    \* config.backoffStrategy, baseRetryDelay, maxRetryDelay
    backoff,        \* calculateNextAttemptTime(): the call made last
    isProcessing,   \* SScheduler.isProcessing, per instance
    pc,             \* per call: the storage call it awaits, or "idle"
    fromDate,       \* sync(): fromDate
    toDate,         \* sync(): toDate
    dueTasks,       \* sync(): ids handed to claimTasks
    claimedTasks,   \* executeTasksBatch(): claimed rows still to execute
    executedTasks,  \* sync(): executedTasks
    processedCount, \* sync(): processedCount
    failedCount,    \* sync(): failedCount
    result,         \* outcome of the caller's last sync() call
    faults,         \* storage errors injected so far
    calls,          \* per call: the adapter calls it made and what they gave
    workflow,       \* SScheduler.workflow: the drafts added so far
    lastAdd,        \* the arguments and outcome of the last add() call
    accepted,       \* the arguments of the add() calls that returned, in order
    scheduling,     \* schedule(): the call it awaits, its argument, its outcome
    createCalls,    \* the arguments of the createTasks calls issued, in order
    created,        \* squirrel_task rows inserted by createTasks, in order
    candidates,     \* filterDueTasks(): the array passed in
    selected,       \* filterDueTasks(): the array returned
    executions,     \* per task: number of executeTask() invocations
    succeeded       \* per task: the work of some executeTask() succeeded

vars == <<now, tasks, attempts, syncHistory, batchSize, retryConfig, backoff,
          isProcessing, pc,
          fromDate, toDate, dueTasks, claimedTasks, executedTasks,
          processedCount, failedCount, result, faults, calls, executions,
          succeeded, workflow, lastAdd, accepted, scheduling, createCalls,
          created, candidates, selected>>

ghost == <<executions, succeeded>>
persisted == <<scheduling, createCalls, created>>
builder == <<workflow, lastAdd, accepted, persisted>>
selector == <<candidates, selected>>
db == <<tasks, attempts, syncHistory>>
config == <<batchSize, retryConfig, backoff>>
locals == <<fromDate, toDate, dueTasks, claimedTasks, executedTasks,
            processedCount, failedCount>>

\* ------------------------------------------------------- pure helpers
Min(a, b) == IF a <= b THEN a ELSE b

RECURSIVE Pow2(_)
Pow2(n) == IF n <= 0 THEN 1 ELSE 2 * Pow2(n - 1)

RECURSIVE SetToSeqAsc(_)
\* rows of a set of ids in rowid order
SetToSeqAsc(S) ==
    IF S = {} THEN <<>>
    ELSE LET m == CHOOSE x \in S : \A y \in S : x <= y
         IN <<m>> \o SetToSeqAsc(S \ {m})

Range(s) == {s[i] : i \in 1..Len(s)}

Take(s, n) == IF Len(s) <= n THEN s ELSE SubSeq(s, 1, n)

\* a delay that no strategy caps
retryDelayUncapped(cfg, retryCount) ==
    CASE cfg.backoffStrategy = "exponential" ->
            cfg.baseRetryDelay * Pow2(retryCount - 1)
      [] cfg.backoffStrategy = "linear" ->
            cfg.baseRetryDelay * retryCount
      [] OTHER -> cfg.baseRetryDelay

\* calculateNextAttemptTime: the delay added to Date.now()
retryDelay(cfg, retryCount) ==
    CASE cfg.backoffStrategy = "exponential" ->
            Min(cfg.baseRetryDelay * Pow2(retryCount - 1), cfg.maxRetryDelay)
      [] cfg.backoffStrategy = "linear" ->
            Min(cfg.baseRetryDelay * retryCount, cfg.maxRetryDelay)
      [] OTHER -> cfg.baseRetryDelay

backoffStrategy == "exponential"

\* the constructor's defaults
DefaultConfig == [backoffStrategy |-> backoffStrategy,
                  baseRetryDelay |-> BaseRetryDelay,
                  maxRetryDelay |-> MaxRetryDelay]

calculateNextAttemptTime(retryCount) == now + retryDelay(retryConfig, retryCount)

\* ------------------------------------------------------- the adapter
RECURSIVE OrderByScheduledAtDesc(_, _)
\* ORDER BY scheduledAt DESC; rows with equal scheduledAt come in rowid order
OrderByScheduledAtDesc(rows, S) ==
    IF S = {} THEN <<>>
    ELSE LET m == CHOOSE x \in S : \A y \in S :
                      \/ rows[x].scheduledAt > rows[y].scheduledAt
                      \/ rows[x].scheduledAt = rows[y].scheduledAt /\ x <= y
         IN <<m>> \o OrderByScheduledAtDesc(rows, S \ {m})

\* listTasks({from, to, status, limit}): ids of the rows returned
listTasks(rows, from, to, status, limit) ==
    Take(OrderByScheduledAtDesc(rows,
            {t \in Tasks : /\ rows[t].status = status
                           /\ rows[t].scheduledAt >= from
                           /\ rows[t].scheduledAt < to}),
         limit)

\* an UPDATE whose WHERE clause lacks the status test
claimUpdateAnyStatus(rows, ids) ==
    [t \in Tasks |->
        IF t \in ids THEN [rows[t] EXCEPT !.status = "in_progress"] ELSE rows[t]]

\* claimTasks, first statement:
\* UPDATE ... SET status = 'in_progress' WHERE id IN ids AND status = 'pending'
claimUpdate(rows, ids) ==
    [t \in Tasks |->
        IF t \in ids /\ rows[t].status = "pending"
        THEN [rows[t] EXCEPT !.status = "in_progress"]
        ELSE rows[t]]

\* claimTasks, second statement:
\* SELECT ... WHERE id IN ids AND status = 'in_progress'
claimSelect(rows, ids) ==
    LET hit == SetToSeqAsc({t \in Tasks : t \in ids /\ rows[t].status = "in_progress"})
    IN [i \in 1..Len(hit) |->
            [id |-> hit[i],
             retryCount |-> rows[hit[i]].retryCount,
             maxRetries |-> rows[hit[i]].maxRetries,
             scheduledAt |-> rows[hit[i]].scheduledAt,
             nextAttemptAt |-> rows[hit[i]].nextAttemptAt]]

\* updateTask(taskId, update): only the fields of `update` that are not
\* undefined are written.  `update` is a record whose absent fields are
\* modelled by the domain of the record.
updateTask(rows, taskId, update) ==
    [rows EXCEPT ![taskId] =
        [f \in DOMAIN rows[taskId] |->
            IF f \in DOMAIN update THEN update[f] ELSE rows[taskId][f]]]

\* getLastSync: the rows it may return (ORDER BY timestamp DESC LIMIT 1);
\* on an empty table the empty result array itself is returned, whose
\* `timestamp` is undefined.
getLastSync(history) ==
    IF history = {} THEN {InvalidDate}
    ELSE {h.timestamp : h \in {g \in history : \A k \in history : k.timestamp <= g.timestamp}}

\* ------------------------------------------------------- JavaScript values
\* A value is its type and an integer: the number itself, the epoch
\* milliseconds of a Date (in clock ticks), the length of a string, 1 for
\* true, an object's identity.
Undefined == [type |-> "undefined", val |-> 0]
Null == [type |-> "null", val |-> 0]
Num(n) == [type |-> "number", val |-> n]
Str(len) == [type |-> "string", val |-> len]
Bool(b) == [type |-> "boolean", val |-> IF b THEN 1 ELSE 0]
Obj(n) == [type |-> "object", val |-> n]
DateOf(ms) == [type |-> "Date", val |-> ms]

\* ToBoolean
truthy(v) ==
    CASE v.type \in {"undefined", "null"} -> FALSE
      [] v.type \in {"number", "string", "boolean"} -> v.val # 0
      [] OTHER -> TRUE

\* `x instanceof Date ? x.getTime() : x`
getTime(v) == v.val

\* a nullable timestamp_ms column as the driver decodes it
fromColumn(ms) == IF ms = NoDate THEN Null ELSE DateOf(ms)

\* ------------------------------------------------------- the scheduler
\* filterDueTasks: the callback of tasks.filter
dueCallback(task) ==
    IF truthy(task.nextAttemptAt)
    THEN getTime(task.nextAttemptAt) <= now
    ELSE getTime(task.scheduledAt) <= now

\* filterDueTasks on task objects
filterDue(list) == SelectSeq(list, dueCallback)

\* filterDueTasks on a row of the adapter
isDue(row) ==
    dueCallback([scheduledAt |-> fromColumn(row.scheduledAt),
                 nextAttemptAt |-> fromColumn(row.nextAttemptAt)])

filterDueTasks(rows, ids) == SelectSeq(ids, LAMBDA t : isDue(rows[t]))

\* filterDueTasks not called yet
NotSelected == [called |-> FALSE, at |-> 0, given |-> <<>>, out |-> <<>>]

\* no error
NoError == [message |-> "none"]

\* schedule() not called yet
NoOutcome == [kind |-> "none", value |-> <<>>,
              message |-> [count |-> 0, original |-> "none"],
              cause |-> NoError]
NotScheduling == [pc |-> "idle", arg |-> <<>>, outcome |-> NoOutcome]

\* add() not called yet
NoAdd == [payload |-> Undefined, scheduledAt |-> Undefined, threw |-> FALSE,
          called |-> FALSE]

\* the adapter calls of a sync() call in flight: how many of each have
\* settled, the number of batches claimed and of executeTask() invocations,
\* and the rows its claimTasks calls returned, in order
NoCalls == [getLastSync |-> 0, listTasks |-> 0, claimTasks |-> 0,
            setLastSync |-> 0, batches |-> 0, executed |-> 0, claimed |-> <<>>]

called(p, f) == [calls EXCEPT ![p][f] = @ + 1]

\* an aggregator that keeps only the last batch
aggregateLastBatch(p, ids) == [executedTasks EXCEPT ![p] = ids]

\* `executedTasks.push(...claimedTasks)`
aggregate(p, ids) == [executedTasks EXCEPT ![p] = @ \o ids]

TypeOK ==
    /\ now \in 1..MaxTime
    /\ batchSize \in 1..MaxBatch
    /\ isProcessing \in [Instances -> BOOLEAN]
    /\ faults \in 0..MaxFaults
    /\ \A t \in Tasks : tasks[t].status \in {"pending", "in_progress", "completed", "failed",
                                            "deleted"}

\* a scheduler on which add() was never called
InitBuilder ==
    /\ workflow = <<>>
    /\ lastAdd = NoAdd
    /\ accepted = <<>>
    /\ scheduling = NotScheduling
    /\ createCalls = <<>>
    /\ created = <<>>

\* filterDueTasks not called
InitSelector ==
    /\ candidates = <<>>
    /\ selected = NotSelected

\* calculateNextAttemptTime not called
NotCalculated == [called |-> FALSE, retryCount |-> 0, at |-> 0, out |-> 0]

\* a scheduler constructed without retry options
InitConfig ==
    /\ retryConfig = DefaultConfig
    /\ backoff = NotCalculated

\* the backend and the sync() callers
InitBackend ==
    /\ now = 1
    /\ tasks \in [Tasks -> [status : {"pending"},
                            retryCount : {0},
                            maxRetries : 0..MaxMaxRetries,
                            scheduledAt : 0..MaxSched,
                            lastAttemptAt : {NoDate},
                            nextAttemptAt : {NoDate}]]
    /\ attempts = <<>>
    /\ syncHistory \in {{}, {[timestamp |-> 0, totalTasks |-> 0]}}
    /\ batchSize \in 1..MaxBatch
    /\ isProcessing = [i \in Instances |-> FALSE]
    /\ pc = [p \in Procs |-> "idle"]
    /\ fromDate = [p \in Procs |-> NoDate]
    /\ toDate = [p \in Procs |-> NoDate]
    /\ dueTasks = [p \in Procs |-> <<>>]
    /\ claimedTasks = [p \in Procs |-> <<>>]
    /\ executedTasks = [p \in Procs |-> <<>>]
    /\ processedCount = [p \in Procs |-> 0]
    /\ failedCount = [p \in Procs |-> 0]
    /\ result = [p \in Procs |-> [kind |-> "none", tasks |-> <<>>, error |-> "none"]]
    /\ faults = 0
    /\ calls = [p \in Procs |-> NoCalls]
    /\ executions = [t \in Tasks |-> 0]
    /\ succeeded = [t \in Tasks |-> FALSE]

InitSync == InitBackend /\ InitConfig

Init == InitBuilder /\ InitSelector /\ InitSync

Tick ==
    /\ now < MaxTime
    /\ now' = now + 1
    /\ UNCHANGED <<tasks, attempts, syncHistory, config, isProcessing, pc,
                   fromDate, toDate, dueTasks, claimedTasks, executedTasks,
                   processedCount, failedCount, result, faults, calls, ghost,
                   builder, selector>>


\* ------------------------------------------------------- sync(): entry
\* a guard that lets every call through
guardNeverRejects(p) == FALSE

\* `if (this.isProcessing) return []`
guardRejects(p) == isProcessing[inst(p)]

\* a rejected call that runs the finally block
flagAfterSkipReleased(p) == [isProcessing EXCEPT ![inst(p)] = FALSE]

\* the flag as the rejected call leaves it: the early return is outside try/finally
flagAfterSkip(p) == isProcessing

\* a flag cleared on the normal return only, not when an error propagates
flagOnExitReturnOnly(p, kind) ==
    IF kind = "error" THEN isProcessing
    ELSE [isProcessing EXCEPT ![inst(p)] = FALSE]

\* the flag as the finally block leaves it, whatever the exit path
flagOnExit(p, kind) == [isProcessing EXCEPT ![inst(p)] = FALSE]

\* a catch block that logs the error and lets sync() return normally
catchSwallows(e) == [kind |-> "returned", error |-> "none"]

\* `catch (error) { console.error(...); throw error; }`
catchRethrows(e) == [kind |-> "error", error |-> e]

\* leaving the try block: finally, then return executedTasks or rethrow
Finish(p, kind, list, e) ==
    /\ isProcessing' = flagOnExit(p, kind)
    /\ pc' = [pc EXCEPT ![p] = "idle"]
    /\ result' = [result EXCEPT ![p] = [kind |-> kind, tasks |-> list, error |-> e]]
    /\ fromDate' = [fromDate EXCEPT ![p] = NoDate]
    /\ toDate' = [toDate EXCEPT ![p] = NoDate]
    /\ dueTasks' = [dueTasks EXCEPT ![p] = <<>>]
    /\ claimedTasks' = [claimedTasks EXCEPT ![p] = <<>>]
    /\ executedTasks' = [executedTasks EXCEPT ![p] = <<>>]
    /\ processedCount' = [processedCount EXCEPT ![p] = 0]
    /\ failedCount' = [failedCount EXCEPT ![p] = 0]
    /\ calls' = [calls EXCEPT ![p] = NoCalls]

\* a loop that fetches again when a batch yields nothing
loopContinues(p) ==
    /\ pc' = [pc EXCEPT ![p] = "listTasks"]
    /\ UNCHANGED <<isProcessing, result, locals, calls>>

\* `break` out of `while (true)`, then `return executedTasks`
loopBreak(p) == Finish(p, "returned", executedTasks[p], "none")

\* the awaited storage call `e` rejects: catch, then finally
Throw(p, e) ==
    /\ faults < MaxFaults
    /\ faults' = faults + 1
    /\ LET out == catchRethrows(e)
       IN Finish(p, out.kind, IF out.kind = "error" THEN <<>> ELSE executedTasks[p],
                 out.error)

\* sync() called while the instance is processing: returns [] at once
SyncSkip(p) ==
    /\ pc[p] = "idle"
    /\ guardRejects(p)
    /\ result' = [result EXCEPT ![p] = [kind |-> "skipped", tasks |-> <<>>,
                                        error |-> "none"]]
    /\ isProcessing' = flagAfterSkip(p)
    /\ UNCHANGED <<now, builder, selector, db, config, pc, locals, faults, calls, ghost>>

\* sync() called on an instance that is not processing: sets the flag and
\* issues getLastSync
SyncStart(p) ==
    /\ pc[p] = "idle"
    /\ ~guardRejects(p)
    /\ isProcessing' = [isProcessing EXCEPT ![inst(p)] = TRUE]
    /\ pc' = [pc EXCEPT ![p] = "getLastSync"]
    /\ result' = [result EXCEPT ![p] = [kind |-> "running", tasks |-> <<>>,
                                        error |-> "none"]]
    /\ UNCHANGED <<now, builder, selector, db, config, locals, faults, calls,
                   ghost>>

GetLastSync(p) ==
    /\ pc[p] = "getLastSync"
    /\ \E ts \in getLastSync(syncHistory) :
          fromDate' = [fromDate EXCEPT ![p] = ts]
    /\ toDate' = [toDate EXCEPT ![p] = now]
    /\ pc' = [pc EXCEPT ![p] = "listTasks"]
    /\ calls' = called(p, "getLastSync")
    /\ UNCHANGED <<now, builder, selector, db, config, isProcessing, dueTasks, claimedTasks,
                   executedTasks, processedCount, failedCount, result, faults,
                   ghost>>

GetLastSyncFail(p) ==
    /\ pc[p] = "getLastSync"
    /\ Throw(p, "getLastSync")
    /\ UNCHANGED <<now, builder, selector, db, config, ghost>>

\* ------------------------------------------------------- sync(): the loop
\* listTasks resolves; filterDueTasks; then break or issue claimTasks
ListTasks(p) ==
    /\ pc[p] = "listTasks"
    /\ LET pendingTasks == IF fromDate[p] = InvalidDate THEN <<>>
                           ELSE listTasks(tasks, fromDate[p], toDate[p], "pending", batchSize)
           due == filterDueTasks(tasks, pendingTasks)
       IN IF pendingTasks = <<>> \/ due = <<>>
          THEN /\ loopBreak(p)
               /\ UNCHANGED faults
          ELSE /\ dueTasks' = [dueTasks EXCEPT ![p] = due]
               /\ pc' = [pc EXCEPT ![p] = "claimUpdate"]
               /\ calls' = called(p, "listTasks")
               /\ UNCHANGED <<isProcessing, fromDate, toDate, claimedTasks,
                              executedTasks, processedCount, failedCount,
                              result, faults>>
    /\ UNCHANGED <<now, builder, selector, db, config, ghost>>

\* the driver refuses the NaN that an Invalid Date maps to
ListTasksInvalidDate(p) ==
    /\ pc[p] = "listTasks"
    /\ fromDate[p] = InvalidDate
    /\ LET out == catchRethrows("listTasks")
       IN Finish(p, out.kind, IF out.kind = "error" THEN <<>> ELSE executedTasks[p],
                 out.error)
    /\ UNCHANGED <<now, builder, selector, db, config, faults, ghost>>

ListTasksFail(p) ==
    /\ pc[p] = "listTasks"
    /\ Throw(p, "listTasks")
    /\ UNCHANGED <<now, builder, selector, db, config, ghost>>

\* claimTasks: the UPDATE statement
ClaimUpdate(p) ==
    /\ pc[p] = "claimUpdate"
    /\ tasks' = claimUpdate(tasks, Range(dueTasks[p]))
    /\ pc' = [pc EXCEPT ![p] = "claimSelect"]
    /\ UNCHANGED <<now, builder, selector, attempts, syncHistory, config, isProcessing, locals,
                   result, faults, calls, ghost>>

ClaimUpdateFail(p) ==
    /\ pc[p] = "claimUpdate"
    /\ Throw(p, "claimTasks")
    /\ UNCHANGED <<now, builder, selector, db, config, ghost>>

\* claimTasks: the SELECT statement, and sync() up to the first executeTask
ClaimSelect(p) ==
    /\ pc[p] = "claimSelect"
    /\ LET claimed == claimSelect(tasks, Range(dueTasks[p]))
           ids == [i \in 1..Len(claimed) |-> claimed[i].id]
       IN IF claimed = <<>>
          THEN /\ loopBreak(p)
          ELSE /\ claimedTasks' = [claimedTasks EXCEPT ![p] = claimed]
               /\ executedTasks' = aggregate(p, ids)
               /\ dueTasks' = [dueTasks EXCEPT ![p] = <<>>]
               /\ pc' = [pc EXCEPT ![p] = "executeTask"]
               /\ calls' = [calls EXCEPT ![p].claimTasks = @ + 1,
                                         ![p].claimed = @ \o ids,
                                         ![p].batches = @ + 1]
               /\ UNCHANGED <<isProcessing, fromDate, toDate, processedCount,
                              failedCount, result>>
    /\ UNCHANGED <<now, builder, selector, db, config, faults, ghost>>

ClaimSelectFail(p) ==
    /\ pc[p] = "claimSelect"
    /\ Throw(p, "claimTasks")
    /\ UNCHANGED <<now, builder, selector, db, config, ghost>>

\* ------------------------------------------------------- executeTasksBatch
\* a loop that goes back to listTasks without writing the checkpoint
NextTaskNoCheckpoint(p) ==
    /\ claimedTasks' = [claimedTasks EXCEPT ![p] = Tail(@)]
    /\ pc' = [pc EXCEPT ![p] = IF Len(claimedTasks[p]) = 1 THEN "listTasks"
                                ELSE "executeTask"]

\* the for loop moves to the next claimed task, or the batch is done and
\* sync() issues setLastSync
NextTask(p) ==
    /\ claimedTasks' = [claimedTasks EXCEPT ![p] = Tail(@)]
    /\ pc' = [pc EXCEPT ![p] = IF Len(claimedTasks[p]) = 1 THEN "setLastSync"
                                ELSE "executeTask"]

\* a loop that takes the claimed tasks from the end
currentFromEnd(p) == claimedTasks[p][Len(claimedTasks[p])]

\* `for (const task of tasks)`: the task the loop is at
current(p) == Head(claimedTasks[p])

\* a batch loop without the try/catch: the task's error leaves sync()
batchRethrows(p) == Finish(p, "error", <<>>, "executeTask")

\* executeTasksBatch, `catch (error) { failed++; ... }`: the failure is
\* counted and the loop goes on
batchCatch(p) ==
    /\ failedCount' = [failedCount EXCEPT ![p] = @ + 1]
    /\ NextTask(p)
    /\ UNCHANGED <<isProcessing, fromDate, toDate, dueTasks, executedTasks,
                   processedCount, result, calls>>

\* a success update that leaves lastAttemptAt alone
successUpdateNoStamp == [status |-> "completed"]

\* handleTaskSuccess: the update it hands to updateTask
successUpdate == [status |-> "completed", lastAttemptAt |-> now]

\* an error update that gives up one attempt early
errorUpdateFailsEarly(task) ==
    LET newRetryCount == task.retryCount + 1
    IN IF newRetryCount >= task.maxRetries
       THEN [status |-> "failed", retryCount |-> newRetryCount,
             lastAttemptAt |-> now]
       ELSE [status |-> "pending", retryCount |-> newRetryCount,
             lastAttemptAt |-> now,
             nextAttemptAt |-> calculateNextAttemptTime(newRetryCount)]

\* handleTaskError: the update it hands to updateTask
errorUpdate(task) ==
    LET newRetryCount == task.retryCount + 1
        status == IF newRetryCount > task.maxRetries THEN "failed" ELSE "pending"
    IN IF status = "pending"
       THEN [status |-> status, retryCount |-> newRetryCount,
             lastAttemptAt |-> now,
             nextAttemptAt |-> calculateNextAttemptTime(newRetryCount)]
       ELSE [status |-> status, retryCount |-> newRetryCount,
             lastAttemptAt |-> now]

\* executeTask: the work succeeds and both writes of handleTaskSuccess land
ExecuteTaskOk(p) ==
    /\ pc[p] = "executeTask"
    /\ LET task == current(p)
       IN /\ executions' = [executions EXCEPT ![task.id] = @ + 1]
          /\ succeeded' = [succeeded EXCEPT ![task.id] = TRUE]
          /\ tasks' = updateTask(tasks, task.id, successUpdate)
          /\ attempts' = Append(attempts, [taskId |-> task.id, statusCode |-> 200])
    /\ processedCount' = [processedCount EXCEPT ![p] = @ + 1]
    /\ NextTask(p)
    /\ calls' = called(p, "executed")
    /\ UNCHANGED <<now, builder, selector, syncHistory, config, isProcessing, fromDate, toDate,
                   dueTasks, executedTasks, failedCount, result, faults>>

\* executeTask: the work succeeds, one of the two calls of handleTaskSuccess
\* rejects (the attempt record, the row update, or the SELECT that follows
\* the row update); control goes to the catch block
ExecuteTaskWriteFails(p) ==
    /\ pc[p] = "executeTask"
    /\ faults < MaxFaults
    /\ faults' = faults + 1
    /\ LET task == current(p)
       IN /\ executions' = [executions EXCEPT ![task.id] = @ + 1]
          /\ succeeded' = [succeeded EXCEPT ![task.id] = TRUE]
          /\ \/ /\ tasks' = updateTask(tasks, task.id, successUpdate)
                /\ UNCHANGED attempts
             \/ /\ attempts' = Append(attempts, [taskId |-> task.id, statusCode |-> 200])
                /\ UNCHANGED tasks
             \/ /\ tasks' = updateTask(tasks, task.id, successUpdate)
                /\ attempts' = Append(attempts, [taskId |-> task.id, statusCode |-> 200])
    /\ pc' = [pc EXCEPT ![p] = "handleTaskError"]
    /\ calls' = called(p, "executed")
    /\ UNCHANGED <<now, builder, selector, syncHistory, config, isProcessing, locals, result>>

\* executeTask: the work throws; control goes to the catch block
ExecuteTaskThrows(p) ==
    /\ pc[p] = "executeTask"
    /\ executions' = [executions EXCEPT ![current(p).id] = @ + 1]
    /\ pc' = [pc EXCEPT ![p] = "handleTaskError"]
    /\ calls' = called(p, "executed")
    /\ UNCHANGED <<now, builder, selector, db, config, isProcessing, locals, result, faults, succeeded>>

\* the catch block of executeTask: handleTaskError, both writes land; the
\* rethrown error is counted by executeTasksBatch
HandleTaskError(p) ==
    /\ pc[p] = "handleTaskError"
    /\ LET task == current(p)
       IN /\ tasks' = updateTask(tasks, task.id, errorUpdate(task))
          /\ attempts' = Append(attempts, [taskId |-> task.id, statusCode |-> 500])
    /\ batchCatch(p)
    /\ UNCHANGED <<now, builder, selector, syncHistory, config, faults, ghost>>

\* handleTaskError with one of its two writes rejecting
HandleTaskErrorWriteFails(p) ==
    /\ pc[p] = "handleTaskError"
    /\ faults < MaxFaults
    /\ faults' = faults + 1
    /\ LET task == current(p)
       IN \/ /\ tasks' = updateTask(tasks, task.id, errorUpdate(task))
             /\ UNCHANGED attempts
          \/ /\ attempts' = Append(attempts, [taskId |-> task.id, statusCode |-> 500])
             /\ UNCHANGED tasks
          \/ /\ tasks' = updateTask(tasks, task.id, errorUpdate(task))
             /\ attempts' = Append(attempts, [taskId |-> task.id, statusCode |-> 500])
    /\ batchCatch(p)
    /\ UNCHANGED <<now, builder, selector, syncHistory, config, ghost>>

\* setLastSync(toDate, {totalTasks: processedCount}), then the loop repeats
SetLastSync(p) ==
    /\ pc[p] = "setLastSync"
    /\ syncHistory' = syncHistory \cup
            {[timestamp |-> toDate[p], totalTasks |-> processedCount[p]]}
    /\ pc' = [pc EXCEPT ![p] = "listTasks"]
    /\ calls' = called(p, "setLastSync")
    /\ UNCHANGED <<now, builder, selector, tasks, attempts, config, isProcessing, locals, result,
                   faults, ghost>>

SetLastSyncFail(p) ==
    /\ pc[p] = "setLastSync"
    /\ Throw(p, "setLastSync")
    /\ UNCHANGED <<now, builder, selector, db, config, ghost>>

\* the steps of a sync() call whose storage calls all resolve
Resolves(p) ==
    \/ SyncStart(p)
    \/ GetLastSync(p)
    \/ ListTasks(p)
    \/ ListTasksInvalidDate(p)
    \/ ClaimUpdate(p)
    \/ ClaimSelect(p)
    \/ ExecuteTaskOk(p)
    \/ ExecuteTaskThrows(p)
    \/ HandleTaskError(p)
    \/ SetLastSync(p)

\* the steps in which a storage call rejects
Rejects(p) ==
    \/ GetLastSyncFail(p)
    \/ ListTasksFail(p)
    \/ ClaimUpdateFail(p)
    \/ ClaimSelectFail(p)
    \/ ExecuteTaskWriteFails(p)
    \/ HandleTaskErrorWriteFails(p)
    \/ SetLastSyncFail(p)

\* One scheduler instance whose sync() is called by two overlapping callers;
\* storage calls may reject.
Callers == ProcsOf("A")
Next == Tick \/ \E p \in Callers : (SyncSkip(p) \/ Resolves(p) \/ Rejects(p))
Spec == Init /\ [][Next]_vars

\* Two scheduler instances polling the same backend, one sync() caller each;
\* every storage call resolves.
Pollers == {"a1", "b1"}
NextPollers == Tick \/ \E p \in Pollers : Resolves(p)
SpecPollers == Init /\ [][NextPollers]_vars

\* The same instance and callers as Spec, started from a backend whose tasks
\* are all scheduled at the epoch with the highest retry ceiling.
InitUniform ==
    /\ Init
    /\ \A t \in Tasks : tasks[t].scheduledAt = 0 /\ tasks[t].maxRetries = MaxMaxRetries
    /\ batchSize \in {1, MaxBatch}
SpecUniform == InitUniform /\ [][Next]_vars

\* Two overlapping claimTasks calls by pollers that fetched overlapping sets
\* of pending tasks: each is about to issue its UPDATE.
InitClaim ==
    /\ InitBuilder
    /\ InitSelector
    /\ now = 1
    /\ tasks \in [Tasks -> [status : {"pending"},
                            retryCount : {0},
                            maxRetries : 0..MaxMaxRetries,
                            scheduledAt : {0},
                            lastAttemptAt : {NoDate},
                            nextAttemptAt : {NoDate}]]
    /\ attempts = <<>>
    /\ syncHistory = {[timestamp |-> 0, totalTasks |-> 0]}
    /\ batchSize \in 1..MaxBatch
    /\ InitConfig
    /\ isProcessing = [i \in Instances |-> TRUE]
    /\ pc = [p \in Procs |-> IF p \in Pollers THEN "claimUpdate" ELSE "idle"]
    /\ fromDate = [p \in Procs |-> IF p \in Pollers THEN 0 ELSE NoDate]
    /\ toDate = [p \in Procs |-> IF p \in Pollers THEN 1 ELSE NoDate]
    /\ \E da, db1 \in {listTasks(tasks, 0, 1, "pending", n) : n \in 1..NumTasks} :
          /\ Range(da) \cap Range(db1) # {}
          /\ dueTasks = [p \in Procs |-> IF p = "a1" THEN da
                                         ELSE IF p = "b1" THEN db1 ELSE <<>>]
    /\ claimedTasks = [p \in Procs |-> <<>>]
    /\ executedTasks = [p \in Procs |-> <<>>]
    /\ processedCount = [p \in Procs |-> 0]
    /\ failedCount = [p \in Procs |-> 0]
    /\ result = [p \in Procs |-> [kind |-> IF p \in Pollers THEN "running" ELSE "none",
                                  tasks |-> <<>>, error |-> "none"]]
    /\ faults = 0
    /\ calls = [p \in Procs |-> IF p \in Pollers
                                THEN [NoCalls EXCEPT !.getLastSync = 1, !.listTasks = 1]
                                ELSE NoCalls]
    /\ executions = [t \in Tasks |-> 0]
    /\ succeeded = [t \in Tasks |-> FALSE]

NextClaim == \E p \in Pollers : (ClaimUpdate(p) \/ ClaimSelect(p))
SpecClaim == InitClaim /\ [][NextClaim]_vars

\* The rows a task can have by the time a poller that fetched it issues its
\* claim: still pending, claimed by another poller, or finished by one.
StaleRows ==
    UNION {{[status |-> "pending", retryCount |-> 0, maxRetries |-> m,
             scheduledAt |-> 0, lastAttemptAt |-> NoDate, nextAttemptAt |-> NoDate],
            [status |-> "in_progress", retryCount |-> 0, maxRetries |-> m,
             scheduledAt |-> 0, lastAttemptAt |-> NoDate, nextAttemptAt |-> NoDate],
            [status |-> "completed", retryCount |-> 0, maxRetries |-> m,
             scheduledAt |-> 0, lastAttemptAt |-> 0, nextAttemptAt |-> NoDate],
            [status |-> "failed", retryCount |-> m + 1, maxRetries |-> m,
             scheduledAt |-> 0, lastAttemptAt |-> 0, nextAttemptAt |-> NoDate]}
           : m \in 0..MaxMaxRetries}

\* sequences of distinct task ids
Fetches == {f \in UNION {[1..n -> Tasks] : n \in 1..NumTasks} :
               \A i, j \in 1..Len(f) : f[i] = f[j] => i = j}

\* One claimTasks call about to issue its UPDATE with the ids of an earlier
\* fetch, on rows that other pollers have worked on since.
InitStale ==
    /\ InitBuilder
    /\ InitSelector
    /\ InitConfig
    /\ now = 1
    /\ tasks \in [Tasks -> StaleRows]
    /\ attempts = <<>>
    /\ syncHistory = {[timestamp |-> 0, totalTasks |-> 0]}
    /\ batchSize = MaxBatch
    /\ isProcessing = [i \in Instances |-> i = "A"]
    /\ pc = [p \in Procs |-> IF p = "a1" THEN "claimUpdate" ELSE "idle"]
    /\ fromDate = [p \in Procs |-> IF p = "a1" THEN 0 ELSE NoDate]
    /\ toDate = [p \in Procs |-> IF p = "a1" THEN 1 ELSE NoDate]
    /\ \E f \in Fetches :
          dueTasks = [p \in Procs |-> IF p = "a1" THEN f ELSE <<>>]
    /\ claimedTasks = [p \in Procs |-> <<>>]
    /\ executedTasks = [p \in Procs |-> <<>>]
    /\ processedCount = [p \in Procs |-> 0]
    /\ failedCount = [p \in Procs |-> 0]
    /\ result = [p \in Procs |-> [kind |-> IF p = "a1" THEN "running" ELSE "none",
                                  tasks |-> <<>>, error |-> "none"]]
    /\ faults = 0
    /\ calls = [p \in Procs |-> IF p = "a1"
                                THEN [NoCalls EXCEPT !.getLastSync = 1, !.listTasks = 1]
                                ELSE NoCalls]
    /\ executions = [t \in Tasks |-> 0]
    /\ succeeded = [t \in Tasks |-> FALSE]

NextStale == ClaimUpdate("a1") \/ ClaimSelect("a1")
SpecStale == InitStale /\ [][NextStale]_vars

\* One scheduler instance, one caller that keeps calling sync(); every
\* storage call resolves, every awaited call settles and the clock advances.
NextFair == Tick \/ Resolves("a1")
Fairness ==
    /\ WF_vars(Tick)
    /\ WF_vars(SyncStart("a1"))
    /\ WF_vars(GetLastSync("a1"))
    /\ WF_vars(ListTasks("a1"))
    /\ WF_vars(ClaimUpdate("a1"))
    /\ WF_vars(ClaimSelect("a1"))
    /\ WF_vars(ExecuteTaskOk("a1") \/ ExecuteTaskThrows("a1"))
    /\ WF_vars(HandleTaskError("a1"))
    /\ WF_vars(SetLastSync("a1"))
SpecFair == Init /\ [][NextFair]_vars /\ Fairness

\* The same caller on a scheduler constructed with any backoff strategy and
\* a retry delay of zero or of one tick; the tasks are scheduled at the
\* epoch with the highest retry ceiling.
RetryConfigs == [backoffStrategy : {"exponential", "linear", "fixed"},
                 baseRetryDelay : {0, BaseRetryDelay},
                 maxRetryDelay : {MaxRetryDelay}]
InitTerminate ==
    /\ InitBuilder
    /\ InitSelector
    /\ InitBackend
    /\ \A t \in Tasks : tasks[t].scheduledAt = 0 /\ tasks[t].maxRetries = MaxMaxRetries
    /\ batchSize \in {1, MaxBatch}
    /\ retryConfig \in RetryConfigs
    /\ backoff = NotCalculated
\* every storage call and every execution of the caller returns
Returns == WF_vars(Resolves("a1"))
SpecTerminate == InitTerminate /\ [][NextFair]_vars /\ Returns

\* ------------------------------------------------------- pruneTasks
\* squirrel_task_result.taskId `references(... {onDelete: "cascade"})`: the
\* rows that are left when the tasks `gone` are deleted and foreign keys
\* are enforced
cascade(log, gone) == SelectSeq(log, LAMBDA r : r.taskId \notin gone)

\* pruneTasks({status, olderThan}) for the status of finished tasks and an
\* olderThan later than every updatedAt: DELETE ... WHERE status = ? AND
\* updatedAt < ?.  A deleted row keeps its place with status "deleted",
\* which no statement matches.  The connection enforces foreign keys or
\* does not.
PruneTasks ==
    \E status \in {"completed", "failed"} :
        LET gone == {t \in Tasks : tasks[t].status = status}
        IN /\ tasks' = [t \in Tasks |->
                           IF t \in gone THEN [tasks[t] EXCEPT !.status = "deleted"]
                           ELSE tasks[t]]
           /\ \/ attempts' = cascade(attempts, gone)
              \/ attempts' = attempts
           /\ UNCHANGED <<now, syncHistory, config, isProcessing, pc, locals,
                          result, faults, calls, ghost, builder, selector>>

\* ------------------------------------------------------- calculateNextAttemptTime
\* calculateNextAttemptTime(retryCount) returns `new Date(Date.now() + delay)`
CalculateNextAttemptTime ==
    /\ \E retryCount \in 1..MaxAttempts :
          backoff' = [called |-> TRUE, retryCount |-> retryCount, at |-> now,
                      out |-> calculateNextAttemptTime(retryCount)]
    /\ UNCHANGED <<now, db, batchSize, retryConfig, isProcessing, pc, locals,
                   result, faults, calls, ghost, builder, selector>>

\* a scheduler constructed with any strategy and any pair of delays
InitBackoff ==
    /\ InitBuilder
    /\ InitSelector
    /\ InitBackend
    /\ \A t \in Tasks : tasks[t].scheduledAt = 0 /\ tasks[t].maxRetries = 0
    /\ syncHistory = {}
    /\ batchSize = 1
    /\ retryConfig \in [backoffStrategy : {"exponential", "linear", "fixed"},
                        baseRetryDelay : 0..MaxDelay,
                        maxRetryDelay : 0..MaxDelay]
    /\ backoff = NotCalculated
NextBackoff == Tick \/ CalculateNextAttemptTime
SpecBackoff == InitBackoff /\ [][NextBackoff]_vars

\* ------------------------------------------------------- filterDueTasks
\* a backend and callers that play no part: one configuration of InitSync
Quiet ==
    /\ InitSync
    /\ \A t \in Tasks : tasks[t].scheduledAt = 0 /\ tasks[t].maxRetries = 0
    /\ syncHistory = {}
    /\ batchSize = 1

\* timestamps of an STask: `number | Date`
Stamps == {Num(n) : n \in 0..MaxTime} \cup {DateOf(n) : n \in 0..MaxTime}

\* the fields of an STask that filterDueTasks reads
TaskObjects == [scheduledAt : Stamps, nextAttemptAt : {Null} \cup Stamps]

\* filterDueTasks(tasks): Array.prototype.filter builds a new array and
\* leaves its receiver as it is
FilterDueTasks ==
    /\ ~selected.called
    /\ selected' = [called |-> TRUE, at |-> now, given |-> candidates,
                    out |-> filterDue(candidates)]
    /\ UNCHANGED <<now, db, config, isProcessing, pc, locals, result, faults,
                   calls, ghost, builder, candidates>>

InitDue ==
    /\ Quiet
    /\ InitBuilder
    /\ candidates \in UNION {[1..n -> TaskObjects] : n \in 0..MaxCandidates}
    /\ selected = NotSelected

NextDue == Tick \/ FilterDueTasks
SpecDue == InitDue /\ [][NextDue]_vars

\* ------------------------------------------------------- add()
\* crypto.randomUUID(): a value no other draft carries.  Ids are only
\* compared for equality, so the first unused value stands for any of them.
UUIDs == 1..MaxAdds
NoId == 0
randomUUID(wf) ==
    CHOOSE id \in UUIDs :
        /\ \A i \in 1..Len(wf) : wf[i].id # id
        /\ \A other \in UUIDs : other < id => \E i \in 1..Len(wf) : wf[i].id = other

\* orThrow(value, message) throws
orThrowThrows(value) == ~truthy(value) \/ (value.type = "string" /\ value.val = 0)

\* arguments of add()
Payloads == {Undefined, Null, Num(0), Str(0), Obj(1)}
Schedules == {Undefined, Num(0), DateOf(0), DateOf(1)}
\* a maxRetries property on the argument object: add() never reads it
Retries == {Undefined, Num(1)}

\* a builder that leaves the previous draft as it is
chainNone(wf, id) == wf

\* `previousTask.nextTaskId = newTask.id`
chain(wf, id) ==
    IF Len(wf) > 0 THEN [wf EXCEPT ![Len(wf)].nextTaskId = id] ELSE wf

\* add(task) returns: the draft is chained to the previous one and pushed
Add ==
    /\ Len(workflow) < MaxAdds
    /\ \E payload \in Payloads, scheduledAt \in Schedules, maxRetries \in Retries :
          /\ ~orThrowThrows(payload)
          /\ ~orThrowThrows(scheduledAt)
          /\ LET id == randomUUID(workflow)
             IN workflow' = Append(chain(workflow, id),
                                   [id |-> id,
                                    status |-> "pending",
                                    retryCount |-> 0,
                                    maxRetries |-> DraftMaxRetries,
                                    payload |-> payload,
                                    scheduledAt |-> scheduledAt,
                                    nextTaskId |-> NoId])
          /\ lastAdd' = [payload |-> payload, scheduledAt |-> scheduledAt,
                         threw |-> FALSE, called |-> TRUE]
          /\ accepted' = Append(accepted, [payload |-> payload,
                                           scheduledAt |-> scheduledAt,
                                           maxRetries |-> maxRetries])
    /\ UNCHANGED <<now, db, config, isProcessing, pc, locals, result, faults,
                   calls, ghost, selector, persisted>>

\* an add() that chains the previous draft before it validates
chainedBeforeThrow(wf, id) == chain(wf, id)

\* orThrow throws inside the object literal of newTask, before
\* `previousTask.nextTaskId = ...` and before `this.workflow.push`
abandoned(wf, id) == wf

\* add(task) throws from orThrow while the draft is being built
AddThrows ==
    /\ \E payload \in Payloads, scheduledAt \in Schedules :
          /\ orThrowThrows(payload) \/ orThrowThrows(scheduledAt)
          /\ lastAdd' = [payload |-> payload, scheduledAt |-> scheduledAt,
                         threw |-> TRUE, called |-> TRUE]
    /\ workflow' = abandoned(workflow, randomUUID(workflow))
    /\ UNCHANGED <<now, db, config, isProcessing, pc, locals, result, faults,
                   calls, ghost, selector, accepted, persisted>>

InitAdd == Quiet /\ InitBuilder /\ InitSelector
NextAdd == Add \/ AddThrows
SpecAdd == InitAdd /\ [][NextAdd]_vars

\* ------------------------------------------------------- schedule()
\* schedule() calls of one builder
MaxSchedules == 2

\* what a rejected createTasks rejects with
StorageErrors == {[message |-> "SQLITE_BUSY"], [message |-> "SQLITE_FULL"]}

\* JSON.stringify(value): a string, longer than what it encodes
stringify(v) == IF v.type \in {"string", "object"} THEN Str(v.val + 2) ELSE Str(1)

\* `this.workflow.map((task) => ({payload, scheduledAt, maxRetries, nextTaskId, metadata}))`
tasksToCreate(wf) ==
    [i \in 1..Len(wf) |-> [payload |-> wf[i].payload,
                           scheduledAt |-> wf[i].scheduledAt,
                           maxRetries |-> wf[i].maxRetries,
                           nextTaskId |-> wf[i].nextTaskId]]

\* the rows of one INSERT ... RETURNING: ids by $defaultFn, below every
\* draft id; squirrel_task has no nextTaskId column, so the value handed
\* in is not stored
createTasks(rows, data) ==
    [i \in 1..Len(data) |-> [id |-> 0 - (Len(rows) + i),
                             payload |-> stringify(data[i].payload),
                             scheduledAt |-> data[i].scheduledAt,
                             maxRetries |-> data[i].maxRetries,
                             nextTaskId |-> NoId,
                             status |-> "pending",
                             retryCount |-> 0]]

\* a catch block that rethrows what createTasks rejected with
rethrown(count, error) ==
    [kind |-> "error", value |-> <<>>,
     message |-> [count |-> 0, original |-> error.message],
     cause |-> NoError]

\* `new Error(\`Failed to schedule ${n} tasks: ${error.message}\`)` with `.cause = error`
enhancedError(count, error) ==
    [kind |-> "error", value |-> <<>>,
     message |-> [count |-> count, original |-> error.message],
     cause |-> error]

\* an empty workflow is handed to the adapter like any other
emptyNeverReturns(wf) == FALSE

\* `if (this.workflow.length === 0) return [];`
emptyReturns(wf) == Len(wf) = 0

\* a schedule() that empties the builder once the rows are created
workflowCleared(wf) == <<>>

\* schedule() has no assignment to this.workflow and calls no method of it
\* that changes it: the drafts stay
workflowKept(wf) == wf

\* schedule() on an empty workflow returns [] at once
ScheduleEmpty ==
    /\ scheduling.pc = "idle"
    /\ Len(createCalls) < MaxSchedules
    /\ emptyReturns(workflow)
    /\ scheduling' = [pc |-> "idle", arg |-> <<>>,
                      outcome |-> [NoOutcome EXCEPT !.kind = "returned"]]
    /\ UNCHANGED <<now, db, config, isProcessing, pc, locals, result, faults,
                   calls, ghost, selector, workflow, lastAdd, accepted,
                   createCalls, created>>

\* schedule() maps the workflow and issues createTasks
ScheduleCall ==
    /\ scheduling.pc = "idle"
    /\ Len(createCalls) < MaxSchedules
    /\ ~emptyReturns(workflow)
    /\ scheduling' = [pc |-> "createTasks", arg |-> tasksToCreate(workflow),
                      outcome |-> NoOutcome]
    /\ createCalls' = Append(createCalls, tasksToCreate(workflow))
    /\ UNCHANGED <<now, db, config, isProcessing, pc, locals, result, faults,
                   calls, ghost, selector, workflow, lastAdd, accepted, created>>

\* createTasks resolves: the rows are inserted and schedule() returns them
CreateTasks ==
    /\ scheduling.pc = "createTasks"
    /\ LET rows == createTasks(created, scheduling.arg) IN
          /\ created' = created \o rows
          /\ scheduling' = [pc |-> "idle", arg |-> scheduling.arg,
                            outcome |-> [NoOutcome EXCEPT !.kind = "returned",
                                                         !.value = rows]]
    /\ workflow' = workflowKept(workflow)
    /\ UNCHANGED <<now, db, config, isProcessing, pc, locals, result, faults,
                   calls, ghost, selector, lastAdd, accepted, createCalls>>

\* createTasks rejects: nothing is inserted and schedule() throws
CreateTasksFail ==
    /\ scheduling.pc = "createTasks"
    /\ \E error \in StorageErrors :
          scheduling' = [pc |-> "idle", arg |-> scheduling.arg,
                         outcome |-> enhancedError(Len(scheduling.arg), error)]
    /\ UNCHANGED <<now, db, config, isProcessing, pc, locals, result, faults,
                   calls, ghost, selector, workflow, lastAdd, accepted,
                   createCalls, created>>

NextSchedule == Add \/ ScheduleEmpty \/ ScheduleCall \/ CreateTasks \/ CreateTasksFail
SpecSchedule == InitAdd /\ [][NextSchedule]_vars

\* One scheduler instance, one caller at a time, every storage call
\* resolves; the tasks are scheduled at the epoch, with every retry ceiling.
InitRetry == Init /\ \A t \in Tasks : tasks[t].scheduledAt = 0
SpecRetry == InitRetry /\ [][NextFair]_vars

\* One scheduler instance, one caller at a time, every storage call
\* resolves, and the application prunes finished tasks.
NextPrune == Tick \/ Resolves("a1") \/ PruneTasks
SpecPrune == InitRetry /\ [][NextPrune]_vars

\* One scheduler instance, one caller at a time, storage calls may reject.
NextSoloFaults == Tick \/ Resolves("a1") \/ Rejects("a1")
SpecSoloFaults == InitUniform /\ [][NextSoloFaults]_vars

\* The instance and callers of Spec, started from a backend whose tasks are
\* scheduled at the epoch and have no retry, fetched in one batch.
InitGuard ==
    /\ Init
    /\ \A t \in Tasks : tasks[t].scheduledAt = 0 /\ tasks[t].maxRetries = 0
    /\ batchSize = MaxBatch
SpecGuard == InitGuard /\ [][Next]_vars

\* ------------------------------------------------------- properties
claimedIds(p) == {claimedTasks[p][i].id : i \in 1..Len(claimedTasks[p])}

Terminal == {"completed", "failed"}

\* C1: a task that is in_progress is in the claimed batch of at most one
\* poller, so it has at most one active executor.
C1_AtMostOneActiveExecutor ==
    \A t \in Tasks :
        tasks[t].status = "in_progress" =>
            Cardinality({p \in Procs : t \in claimedIds(p)}) <= 1

\* C2: once two overlapping claimTasks calls on pending tasks have both
\* returned, every task of the union of their inputs (the tasks that are
\* now in_progress) was returned to exactly one caller.
C2_ClaimReturnsEachTaskOnce ==
    (\A p \in Pollers : pc[p] \in {"executeTask", "idle"}) =>
        \A t \in Tasks :
            tasks[t].status = "in_progress" =>
                Cardinality({p \in Pollers : t \in claimedIds(p)}) = 1

\* C3: completed and failed are absorbing: no step changes the status of a
\* task whose persisted status is completed or failed.
C3_TerminalAbsorbing ==
    [][\A t \in Tasks :
          tasks[t].status \in Terminal => tasks'[t].status = tasks[t].status]_vars

\* C4: the persisted retryCount never decreases from one state to the next
\* and never exceeds maxRetries + 1.
C4_RetryCountMonotoneBounded ==
    [][\A t \in Tasks :
          /\ tasks'[t].retryCount >= tasks[t].retryCount
          /\ tasks'[t].retryCount <= tasks'[t].maxRetries + 1]_vars

\* C5: a task with maxRetries = m is executed at most m + 1 times in total,
\* and is never executed again after an execution that succeeded.
C5_AtMostMaxRetriesPlusOneExecutions ==
    [][\A t \in Tasks :
          executions'[t] > executions[t] =>
              /\ executions'[t] <= tasks[t].maxRetries + 1
              /\ ~succeeded[t]]_vars

\* a task left pending by a failed execution, with a nextAttemptAt that the
\* clock reaches
RetryPending(t) ==
    /\ tasks[t].status = "pending"
    /\ tasks[t].retryCount > 0
    /\ tasks[t].nextAttemptAt # NoDate
    /\ tasks[t].nextAttemptAt <= MaxTime

\* C6: a task left pending by a failed execution (retries remaining,
\* nextAttemptAt set) is executed again by a later sync(), given that sync()
\* keeps being called and all storage calls succeed.
C6_RetryEventuallyExecuted ==
    \A t \in Tasks : \A n \in 0..(MaxMaxRetries + 1) :
        (RetryPending(t) /\ executions[t] = n) ~> (executions[t] > n)

\* C7: when a sync() call returns normally, no task is left that is pending,
\* has scheduledAt inside that call's window [fromDate, toDate) and is due.
C7_WindowDrainedOnReturn ==
    [][\A p \in Callers :
          (/\ pc[p] # "idle"
           /\ pc'[p] = "idle"
           /\ result'[p].kind = "returned"
           /\ fromDate[p] # InvalidDate)
          => ~ \E t \in Tasks :
                  /\ tasks'[t].status = "pending"
                  /\ tasks'[t].scheduledAt >= fromDate[p]
                  /\ tasks'[t].scheduledAt < toDate[p]
                  /\ isDue(tasks'[t])]_vars

InFlight(p) == pc[p] # "idle"
OtherInFlight(p) == \E q \in ProcsOf(inst(p)) \ {p} : InFlight(q)

\* C8: a sync() call made while another sync() call on the same instance is
\* in flight returns an empty list at once and issues no storage call: the
\* caller stays idle, and neither the backend nor the flag changes.
C8_RejectedCallReturnsEmptyWithoutStorage ==
    [][\A p \in Callers :
          (/\ ~InFlight(p)
           /\ OtherInFlight(p)
           /\ (pc'[p] # pc[p] \/ result'[p] # result[p]))
          => /\ pc'[p] = "idle"
             /\ result'[p] = [kind |-> "skipped", tasks |-> <<>>, error |-> "none"]
             /\ UNCHANGED <<db, isProcessing, faults>>]_vars

C8_Witness ==
    /\ result["a2"].kind = "skipped"
    /\ pc["a1"] = "listTasks"
    /\ pc["a2"] = "idle"

\* C9: at most one sync() call per instance is inside the body at a time,
\* also after another call was rejected by the guard.
C9_AtMostOneSyncInBody ==
    \A i \in Instances : Cardinality({p \in ProcsOf(i) : InFlight(p)}) <= 1

C9_Witness ==
    /\ result["a2"].kind = "skipped"
    /\ pc["a1"] = "executeTask"
    /\ isProcessing["A"]

\* C10: the processing flag of an instance is false whenever no sync() call
\* is running on it, whether the last call returned or raised.
C10_FlagClearWhenNoSyncRuns ==
    \A i \in Instances :
        (\A p \in ProcsOf(i) : ~InFlight(p)) => ~isProcessing[i]

C10_Witness ==
    /\ result["a1"].kind = "error"
    /\ \A p \in Callers : ~InFlight(p)
    /\ ~isProcessing["A"]
    /\ faults > 0

\* the adapter call a sync() call awaits at each position of its body
awaited(p) ==
    CASE pc[p] = "getLastSync" -> "getLastSync"
      [] pc[p] = "listTasks" -> "listTasks"
      [] pc[p] \in {"claimUpdate", "claimSelect"} -> "claimTasks"
      [] pc[p] = "setLastSync" -> "setLastSync"
      [] OTHER -> "none"

\* C11: when getLastSync, listTasks or claimTasks rejects, the sync() call
\* ends at once by raising that same error, the backend is left as it was,
\* and the processing flag is already false.
C11_StorageErrorPropagates ==
    [][\A p \in Callers :
          (/\ awaited(p) \in {"getLastSync", "listTasks", "claimTasks"}
           /\ pc'[p] # pc[p]
           /\ faults' > faults)
          => /\ pc'[p] = "idle"
             /\ result'[p] = [kind |-> "error", tasks |-> <<>>, error |-> awaited(p)]
             /\ ~isProcessing'[inst(p)]
             /\ UNCHANGED db]_vars

C11_Witness ==
    /\ result["a1"].kind = "error"
    /\ result["a1"].error = "listTasks"
    /\ \E h \in syncHistory : h.timestamp = 1
    /\ pc["a1"] = "idle"
    /\ ~isProcessing["A"]

C13_ReturnsConcatenationOfClaims ==
    [][\A p \in Callers :
          (pc[p] # "idle" /\ pc'[p] = "idle" /\ result'[p].kind = "returned")
          => /\ result'[p].tasks = calls[p].claimed
             /\ pc[p] = "listTasks" =>
                   /\ calls[p].listTasks = calls[p].batches
                   /\ calls[p].claimTasks = calls[p].batches]_vars

C13_Witness ==
    /\ pc["a1"] = "idle"
    /\ result["a1"].kind = "returned"
    /\ result["a1"].tasks = <<1, 2>>
    /\ batchSize = 1
    /\ Cardinality(syncHistory) >= 2

\* C14: setLastSync has been called once for every batch that claimed at
\* least one task and whose execution is over, it is called only when every
\* claimed task of the batch has been executed, and an iteration that ends
\* the loop adds no call.
C14_OneCheckpointPerClaimedBatch ==
    \A p \in Callers :
        /\ pc[p] \in {"idle", "getLastSync", "listTasks", "claimUpdate", "claimSelect"}
              => calls[p].setLastSync = calls[p].batches
        /\ pc[p] \in {"executeTask", "handleTaskError", "setLastSync"}
              => calls[p].setLastSync = calls[p].batches - 1
        /\ pc[p] = "setLastSync"
              => /\ claimedTasks[p] = <<>>
                 /\ calls[p].executed = Len(calls[p].claimed)

C14_Witness ==
    /\ pc["a1"] = "listTasks"
    /\ calls["a1"].batches = 2
    /\ calls["a1"].setLastSync = 2
    /\ calls["a1"].listTasks = 2

\* C15: the checkpoint a sync() call writes has the call's toDate as its
\* timestamp and, as totalTasks, the number of tasks the call has executed
\* so far, failed executions included.
C15_CheckpointCountsAllExecutions ==
    [][\A p \in Callers :
          (pc[p] = "setLastSync" /\ pc'[p] = "listTasks")
          => [timestamp |-> toDate[p], totalTasks |-> calls[p].executed]
                \in syncHistory']_vars

\* nextAttemptAt is set
isSet(v) == v.type \notin {"undefined", "null"}

failures(t, log) ==
    Cardinality({i \in 1..Len(log) : log[i].taskId = t /\ log[i].statusCode = 500})

\* the retry policy with the default (exponential) strategy
nextDelay(attemptNumber) ==
    Min(BaseRetryDelay * Pow2(attemptNumber - 1), MaxRetryDelay)

C18_SuccessCompletesTask ==
    [][\A p \in Callers :
          processedCount'[p] > processedCount[p]
          => LET t == Head(claimedTasks[p]).id
             IN /\ tasks[t].status = "in_progress"
                /\ tasks'[t] = [tasks[t] EXCEPT !.status = "completed",
                                                !.lastAttemptAt = now]
                /\ \A u \in Tasks \ {t} : tasks'[u] = tasks[u]
                /\ attempts' = Append(attempts, [taskId |-> t, statusCode |-> 200])]_vars

C18_Witness ==
    \E t \in Tasks :
        /\ tasks[t].status = "completed"
        /\ tasks[t].retryCount = 1
        /\ tasks[t].lastAttemptAt = 2
        /\ attempts[Len(attempts)] = [taskId |-> t, statusCode |-> 200]

\* C19: the workflow holds the drafts of the add() calls that returned, in
\* the order of the calls, with pairwise distinct ids; each draft but the
\* last has the id of the next one as nextTaskId, the last has none.
C19_WorkflowIsChainInInsertionOrder ==
    /\ Len(workflow) = Len(accepted)
    /\ \A i \in 1..Len(workflow) :
          /\ workflow[i].payload = accepted[i].payload
          /\ workflow[i].scheduledAt = accepted[i].scheduledAt
          /\ workflow[i].id # NoId
          /\ \A j \in 1..Len(workflow) : i # j => workflow[i].id # workflow[j].id
          /\ workflow[i].nextTaskId =
                IF i < Len(workflow) THEN workflow[i + 1].id ELSE NoId

C19_Witness ==
    /\ Len(workflow) = MaxAdds
    /\ workflow[1].nextTaskId = workflow[2].id
    /\ workflow[MaxAdds].nextTaskId = NoId
    /\ workflow[1].scheduledAt # workflow[2].scheduledAt

\* C20: add() throws exactly when payload is absent or null or scheduledAt
\* is absent or null.
C20_AddRejectsExactlyMissingFields ==
    lastAdd.called =>
        (lastAdd.threw <=> (~isSet(lastAdd.payload) \/ ~isSet(lastAdd.scheduledAt)))

\* C21: schedule() called on a builder to which nothing was added returns
\* an empty list and issues no storage call.
C21_EmptyScheduleReturnsEmptyWithoutStorage ==
    [][(scheduling.pc = "idle" /\ workflow = <<>> /\ scheduling' # scheduling)
          => /\ scheduling'.pc = "idle"
             /\ scheduling'.outcome.kind = "returned"
             /\ scheduling'.outcome.value = <<>>
             /\ createCalls' = createCalls
             /\ created' = created]_vars

C21_Witness ==
    /\ workflow = <<>>
    /\ scheduling.pc = "idle"
    /\ scheduling.outcome.kind = "returned"
    /\ scheduling.outcome.value = <<>>
    /\ createCalls = <<>>

\* C22: schedule() on a non-empty builder issues exactly one createTasks
\* call; its argument has one draft per add() call that returned, in
\* insertion order, each with the payload, the scheduledAt and the
\* maxRetries given to that call; schedule() returns what createTasks
\* returned.
C22_ScheduleSendsEveryDraftAsGiven ==
    [][/\ (scheduling.pc = "idle" /\ workflow # <<>> /\ scheduling' # scheduling)
            => /\ scheduling'.pc = "createTasks"
               /\ createCalls' = Append(createCalls, scheduling'.arg)
               /\ Len(scheduling'.arg) = Len(accepted)
               /\ \A i \in 1..Len(accepted) :
                     /\ scheduling'.arg[i].payload = accepted[i].payload
                     /\ scheduling'.arg[i].scheduledAt = accepted[i].scheduledAt
                     /\ accepted[i].maxRetries.type = "number"
                           => scheduling'.arg[i].maxRetries = accepted[i].maxRetries.val
       /\ (scheduling.pc = "createTasks" /\ scheduling'.outcome.kind = "returned")
            => /\ created' = created \o scheduling'.outcome.value
               /\ createCalls' = createCalls]_vars

\* C23: when createTasks rejects, schedule() throws one error whose message
\* names the number of drafts and the message of the rejection and whose
\* cause is the rejection; createTasks is not called again and no row of
\* the batch exists.
C23_FailedScheduleThrowsEnhancedError ==
    [][(/\ scheduling.pc = "createTasks"
        /\ scheduling' # scheduling
        /\ scheduling'.outcome.kind # "returned")
          => /\ scheduling'.pc = "idle"
             /\ scheduling'.outcome.kind = "error"
             /\ scheduling'.outcome.cause \in StorageErrors
             /\ scheduling'.outcome.message =
                    [count |-> Len(scheduling.arg),
                     original |-> scheduling'.outcome.cause.message]
             /\ scheduling'.outcome.value = <<>>
             /\ createCalls' = createCalls
             /\ created' = created]_vars

C23_Witness ==
    /\ scheduling.pc = "idle"
    /\ scheduling.outcome.kind = "error"
    /\ scheduling.outcome.message.count = MaxAdds
    /\ scheduling.outcome.cause = [message |-> "SQLITE_FULL"]
    /\ Len(createCalls) = 1
    /\ created = <<>>

\* C24: on a backend with no checkpoint record getLastSync returns
\* {timestamp: epoch-zero, totalTasks: 0}: the sync() call that reads it
\* queries the window from the epoch to the time of the call.
C24_FirstSyncStartsAtEpoch ==
    [][\A p \in Procs :
          (pc[p] = "getLastSync" /\ syncHistory = {} /\ pc'[p] = "listTasks")
          => fromDate'[p] = 0 /\ toDate'[p] = now]_vars

\* C25: in every reachable state a task whose persisted retryCount is
\* greater than its maxRetries has status failed.
C25_ExhaustedTaskIsFailed ==
    \A t \in Tasks :
        tasks[t].retryCount > tasks[t].maxRetries => tasks[t].status = "failed"

\* C26: in every reachable state a task whose persisted status is completed
\* or failed has no nextAttemptAt: the write that makes the task terminal
\* clears the nextAttemptAt of an earlier failed attempt.
C26_TerminalTaskHasNoNextAttempt ==
    \A t \in Tasks : tasks[t].status \in Terminal => tasks[t].nextAttemptAt = NoDate

\* the attempt records of a task
records(t, log) == Cardinality({i \in 1..Len(log) : log[i].taskId = t})

\* C27: every execution of a task appends exactly one attempt record: when
\* no sync() call is in flight the number of attempt records of a task is
\* the number of times it was executed, also when a write of the outcome
\* was rejected.
C27_OneAttemptRecordPerExecution ==
    (\A p \in Procs : pc[p] = "idle")
        => \A t \in Tasks : records(t, attempts) = executions[t]

\* the storage calls a sync() call has issued and that have not settled: the
\* call it awaits, or the two calls handleTaskError hands to Promise.all
outstanding(p) ==
    CASE pc[p] = "handleTaskError" -> {"updateTask", "recordTaskAttempt"}
      [] awaited(p) # "none" -> {awaited(p)}
      [] OTHER -> {}

\* C28: a scheduler instance never has two storage calls outstanding: the
\* calls in flight of all sync() calls of one instance are at most one.
C28_OneOutstandingStorageCall ==
    \A i \in Instances :
        /\ \A p \in ProcsOf(i) : Cardinality(outstanding(p)) <= 1
        /\ \A p, q \in ProcsOf(i) :
              p # q => outstanding(p) = {} \/ outstanding(q) = {}

C30_NoExecutionBeforeDue ==
    [][\A p \in Procs :
          calls'[p].executed = calls[p].executed + 1
          => LET task == current(p)
             IN /\ task.retryCount = 0 => task.scheduledAt <= now
                /\ (task.retryCount > 0 /\ task.nextAttemptAt # NoDate)
                      => task.nextAttemptAt <= now]_vars

\* C31: every iteration of the sync loop begins by reading the checkpoint
\* and queries the window from that checkpoint to the current time: a
\* listTasks call is outstanding only after one getLastSync call per
\* iteration begun, over a window that ends at the time the iteration began.
C31_CheckpointReadEveryIteration ==
    [][\A p \in Procs :
          (pc[p] # "listTasks" /\ pc'[p] = "listTasks")
          => /\ calls'[p].getLastSync = calls'[p].batches + 1
             /\ toDate'[p] = now]_vars

\* C32: a sync() call whose storage calls and executions all return ends:
\* for every batch size, backoff strategy and retry delay (zero included)
\* the call that is in its body is eventually back at idle.
C32_SyncTerminates ==
    \A p \in {"a1"} : (pc[p] # "idle") ~> (pc[p] = "idle")

C32_Witness ==
    /\ retryConfig.baseRetryDelay = 0
    /\ pc["a1"] = "idle"
    /\ result["a1"].kind = "returned"
    /\ Len(result["a1"].tasks) > NumTasks
    /\ \E t \in Tasks : tasks[t].status = "failed" /\ tasks[t].retryCount = MaxMaxRetries + 1

\* C33: for every attemptNumber >= 1 the retry delay is
\* min(baseDelay * 2^(attemptNumber-1), maxDelay) for exponential,
\* min(baseDelay * attemptNumber, maxDelay) for linear and baseDelay for
\* fixed, whatever maxDelay is; nextAttemptAt is the time of the call plus
\* that delay.
C33_RetryDelayFormula ==
    backoff.called =>
        LET n == backoff.retryCount
            base == retryConfig.baseRetryDelay
            cap == retryConfig.maxRetryDelay
            exponential == IF base * 2^(n - 1) < cap THEN base * 2^(n - 1) ELSE cap
            linear == IF base * n < cap THEN base * n ELSE cap
        IN /\ n >= 1
           /\ retryConfig.backoffStrategy = "exponential"
                 => backoff.out = backoff.at + exponential
           /\ retryConfig.backoffStrategy = "linear"
                 => backoff.out = backoff.at + linear
           /\ retryConfig.backoffStrategy = "fixed"
                 => backoff.out = backoff.at + base

C33_Witness ==
    /\ backoff.called
    /\ backoff.retryCount = MaxAttempts
    /\ retryConfig.backoffStrategy = "exponential"
    /\ retryConfig.baseRetryDelay = 1
    /\ retryConfig.maxRetryDelay = MaxDelay
    /\ backoff.at = MaxTime
    /\ backoff.out = MaxTime + MaxDelay

\* C34: attempt records are append-only and independent of the task row:
\* no step changes or removes an existing attempt record, the steps that
\* change or delete the record's task included.
C34_AttemptRecordsAppendOnly ==
    [][/\ Len(attempts') >= Len(attempts)
       /\ \A i \in 1..Len(attempts) : attempts'[i] = attempts[i]]_vars

\* C35: after schedule() has persisted a workflow of n tasks, the
\* nextTaskId of the i-th persisted task is the id of the (i+1)-th
\* persisted task, for every i < n.
C35_PersistedChainPointsAtPersistedTasks ==
    [][(scheduling.pc = "createTasks" /\ scheduling'.outcome.kind = "returned")
          => LET rows == scheduling'.outcome.value
             IN \A i \in 1..(Len(rows) - 1) : rows[i].nextTaskId = rows[i + 1].id]_vars

\* the checkpoint getLastSync returns: the latest timestamp written
lastCheckpoint == CHOOSE ts \in getLastSync(syncHistory) : TRUE

\* C36: whenever no sync() call is running, no pending task is left
\* behind the window of the next poll: every pending task has a scheduledAt
\* at or after the latest checkpoint.
C36_NoPendingTaskBehindCheckpoint ==
    ((\A p \in Procs : pc[p] = "idle") /\ syncHistory # {})
        => \A t \in Tasks :
              tasks[t].status = "pending" => tasks[t].scheduledAt >= lastCheckpoint

\* C37: schedule() leaves the workflow as it is; a later schedule() call
\* hands every draft of the workflow to createTasks, the drafts of the
\* earlier call again and the drafts added since.
C37_ScheduleKeepsWorkflow ==
    [][/\ scheduling' # scheduling => workflow' = workflow
       /\ (scheduling.pc = "idle" /\ scheduling'.pc = "createTasks")
            => /\ Len(scheduling'.arg) = Len(accepted)
               /\ \A k \in 1..Len(createCalls) :
                     /\ Len(createCalls[k]) <= Len(scheduling'.arg)
                     /\ \A i \in 1..Len(createCalls[k]) :
                           /\ scheduling'.arg[i].payload = createCalls[k][i].payload
                           /\ scheduling'.arg[i].scheduledAt = createCalls[k][i].scheduledAt]_vars

C37_Witness ==
    /\ scheduling.pc = "idle"
    /\ scheduling.outcome.kind = "returned"
    /\ Len(createCalls) = 2
    /\ Len(createCalls[1]) = 1
    /\ Len(createCalls[2]) = 2
    /\ Len(created) = 3
    /\ created[1].scheduledAt = created[2].scheduledAt
    /\ created[1].scheduledAt # created[3].scheduledAt
    /\ Len(workflow) = 2

\* C38: an add() call that throws leaves the workflow exactly as it was:
\* no draft is appended, the nextTaskId of the last draft is not changed,
\* and no storage call is made.
C38_FailedAddLeavesWorkflow ==
    [][lastAdd'.threw
          => /\ workflow' = workflow
             /\ accepted' = accepted
             /\ createCalls' = createCalls
             /\ created' = created
             /\ scheduling' = scheduling
             /\ calls' = calls
             /\ db' = db]_vars

C38_Witness ==
    /\ lastAdd.called
    /\ lastAdd.threw
    /\ lastAdd.payload = Obj(1)
    /\ lastAdd.scheduledAt = Undefined
    /\ Len(workflow) = 2
    /\ workflow[1].nextTaskId = workflow[2].id
    /\ workflow[2].nextTaskId = NoId

\* C39: every task a sync() call claimed has left in_progress when the call
\* returns or raises, also when a write of the outcome was rejected.
C39_ClaimedTasksLeaveInProgress ==
    [][\A p \in Procs :
          (pc[p] # "idle" /\ pc'[p] = "idle")
          => \A k \in 1..Len(calls[p].claimed) :
                tasks'[calls[p].claimed[k]].status # "in_progress"]_vars

\* C40: a claimTasks call changes nothing except the status of the tasks of
\* its input that were pending, which becomes in_progress: tasks that are
\* in_progress, completed or failed, tasks outside the input, every other
\* field of a task, the attempt records and the sync history stay as they were.
C40_ClaimTasksChangesOnlyPendingInput ==
    [][\A p \in Procs :
          (pc[p] \in {"claimUpdate", "claimSelect"} /\ pc'[p] # pc[p]) =>
              /\ attempts' = attempts
              /\ syncHistory' = syncHistory
              /\ \A t \in Tasks :
                    tasks'[t] # tasks[t] =>
                        /\ t \in Range(dueTasks[p])
                        /\ tasks[t].status = "pending"
                        /\ tasks'[t].status = "in_progress"
                        /\ \A f \in DOMAIN tasks[t] \ {"status"} :
                              tasks'[t][f] = tasks[t][f]]_vars

\* a claim whose input held a pending task, which it returned, and a failed
\* task, which it left alone
C40_Witness ==
    /\ pc["a1"] = "executeTask"
    /\ Len(calls["a1"].claimed) = 1
    /\ \E t, u \in Tasks :
          /\ calls["a1"].claimed = <<t>>
          /\ tasks[t].status = "in_progress"
          /\ tasks[u].status = "failed"
          /\ tasks[u].retryCount = tasks[u].maxRetries + 1

====
